---- MODULE Spec2Model ----
(***************************************************************************)
(* Model of supportal/app/authentication_backend.py: the Cognito JWT       *)
(* authentication backend (CognitoJWTAuthentication.authenticate, get_jwks,*)
(* validate_jwt, _get_auth_token, _get_public_key, _validate_id_token_data)*)
(* together with its collaborators at their interface: the shared cache,   *)
(* the issuer's JWKS endpoint, the user and API-key datastores and the     *)
(* user_logged_in signal.                                                  *)
(***************************************************************************)
EXTENDS Integers, FiniteSets, Sequences, TLC

(***************************************************************************)
(* Bounds                                                                  *)
(***************************************************************************)
\* number of distinct key identifiers the issuer may publish
NumKids == 2

Kids == 1..NumKids
\* header without a "kid" (header.get("kid") is None or empty)
NoKid == 0
\* a signature made with a key the issuer never published
Forged == 0

\* number of threads of the one process that call get_jwks concurrently
NumCallers == 2

\* the thread that serves one request after the other
Threads == {1}
\* the threads of the process
AllThreads == 1..NumCallers

(***************************************************************************)
(* Values of the key store: None, the payload {} and {"keys": [...]}       *)
(***************************************************************************)
None == [kind |-> "None", keys |-> {}]
EmptyPayload == [kind |-> "empty", keys |-> {}]
KeySet(S) == [kind |-> "jwks", keys |-> S]

\* what res.json() can be for a 2xx answer of the JWKS endpoint
Payloads == {EmptyPayload} \cup {KeySet(S) : S \in SUBSET Kids}

\* Python truthiness of the module global: None and {} are falsy, a dict
\* with a "keys" member is truthy whatever the list holds
Truthy(v) == v.kind = "jwks"

(***************************************************************************)
(* Settings                                                                *)
(***************************************************************************)
\* settings.COGNITO_USER_LOGIN_CLIENT_ID
COGNITO_USER_LOGIN_CLIENT_ID == "login-client"

(***************************************************************************)
(* Datastores.  A user row: is_active, is_admin, impersonated_user (a user *)
(* id, 0 for NULL).  The natural key (username) of user i is i.            *)
(***************************************************************************)
NoUser == 0
\* a username / client_id that has no row
Unknown == 99

UserTable ==
  [i \in 1..8 |->
     CASE i = 1 -> [is_active |-> TRUE,  is_admin |-> FALSE, impersonated_user |-> 0]
       [] i = 2 -> [is_active |-> TRUE,  is_admin |-> FALSE, impersonated_user |-> 1]
       [] i = 3 -> [is_active |-> TRUE,  is_admin |-> TRUE,  impersonated_user |-> 4]
       [] i = 4 -> [is_active |-> TRUE,  is_admin |-> TRUE,  impersonated_user |-> 5]
       [] i = 5 -> [is_active |-> FALSE, is_admin |-> FALSE, impersonated_user |-> 0]
       [] i = 6 -> [is_active |-> TRUE,  is_admin |-> TRUE,  impersonated_user |-> 6]
       [] i = 7 -> [is_active |-> FALSE, is_admin |-> TRUE,  impersonated_user |-> 1]
       [] i = 8 -> [is_active |-> TRUE,  is_admin |-> TRUE,  impersonated_user |-> 0]]

\* APIKey rows: pk -> owning user
ApiKeyTable ==
  [k \in 1..4 |->
     CASE k = 1 -> 1
       [] k = 2 -> 3
       [] k = 3 -> 5
       [] k = 4 -> 4]

(***************************************************************************)
(* Tokens.  The header (kid, alg) is readable without verification; the    *)
(* payload becomes token_data only when jwt.decode accepts the token.      *)
(***************************************************************************)
Algs == {"RS256", "HS256"}
StdStates == {"ok", "expired", "bad_iss"}
Auds == {"", COGNITO_USER_LOGIN_CLIENT_ID, "other-client"}
Emails == {"", "a@b.com"}

Claims(tu, aud, un, em, ev, cid) ==
  [token_use |-> tu, aud |-> aud, username |-> un, email |-> em,
   email_verified |-> ev, client_id |-> cid]

\* token_data before jwt.decode has produced anything
NoClaims == Claims("<unset>", "", 0, "", FALSE, 0)

IdClaims ==
  {Claims("id", a, u, e, v, 0) :
     a \in Auds, u \in (DOMAIN UserTable) \cup {0, Unknown}, e \in Emails, v \in BOOLEAN}
AccessClaims ==
  {Claims("access", a, 0, "", FALSE, c) :
     a \in {"", "other-client"}, c \in (DOMAIN ApiKeyTable) \cup {0, Unknown}}
OtherClaims == {Claims(tu, "", 0, "", FALSE, 0) : tu \in {"refresh", ""}}
AllClaims == IdClaims \cup AccessClaims \cup OtherClaims

DefaultClaims == Claims("id", COGNITO_USER_LOGIN_CLIENT_ID, 1, "a@b.com", TRUE, 0)

Token(wf, kid, alg, sig, std, cl) ==
  [wellformed |-> wf, kid |-> kid, alg |-> alg, signedBy |-> sig, std |-> std, claims |-> cl]

\* every header with one payload, and every payload under each header that a
\* published key verifies
HeaderTokens ==
  {Token(TRUE, k, a, s, st, DefaultClaims) :
     k \in Kids \cup {NoKid}, a \in Algs, s \in Kids \cup {Forged}, st \in StdStates}
PayloadTokens == {Token(TRUE, k, "RS256", k, "ok", cl) : k \in Kids, cl \in AllClaims}
Malformed == Token(FALSE, NoKid, "RS256", Forged, "ok", DefaultClaims)
Tokens == HeaderTokens \cup PayloadTokens \cup {Malformed}

\* the Authorization header after header.split(): number of segments and the
\* lower-cased first segment
HeaderShapes ==
  {[nseg |-> 0, scheme |-> ""], [nseg |-> 1, scheme |-> "bearer"],
   [nseg |-> 2, scheme |-> "basic"], [nseg |-> 3, scheme |-> "bearer"],
   [nseg |-> 2, scheme |-> "bearer"]}

Requests ==
  {[header |-> h, token |-> Malformed] : h \in HeaderShapes \ {[nseg |-> 2, scheme |-> "bearer"]}}
  \cup {[header |-> [nseg |-> 2, scheme |-> "bearer"], token |-> tk] : tk \in Tokens}

NoRequest == [header |-> [nseg |-> 0, scheme |-> ""], token |-> Malformed]

(***************************************************************************)
(* Results of authenticate                                                 *)
(***************************************************************************)
NoResult == [kind |-> "pending", user |-> NoUser, claims |-> NoClaims,
             exc |-> "", detail |-> "", line |-> 0]
\* return None (line 52)
ReturnNone == [kind |-> "none", user |-> NoUser, claims |-> NoClaims,
               exc |-> "", detail |-> "", line |-> 52]
\* return user, token_data
Return(u, td, ln) == [kind |-> "ok", user |-> u, claims |-> td,
                      exc |-> "", detail |-> "", line |-> ln]
\* an exception that leaves authenticate, with the line that raised it
Raise(e, d, ln) == [kind |-> "error", user |-> NoUser, claims |-> NoClaims,
                    exc |-> e, detail |-> d, line |-> ln]
AuthenticationFailed(d, ln) == Raise("AuthenticationFailed", d, ln)

(***************************************************************************)
(* Pure functions of the module                                            *)
(***************************************************************************)
GetAuthTokenAnyScheme(header) ==
  IF header.nseg = 0 THEN "none"
  ELSE IF header.nseg # 2 THEN "invalid"
  ELSE "token"

\* _get_auth_token: None for an empty header, the token for "<auth_type> <token>",
\* AuthenticationFailed otherwise
GetAuthToken(header) ==
  IF header.nseg = 0 THEN "none"
  ELSE IF header.nseg # 2 \/ header.scheme # "bearer" THEN "invalid"
  ELSE "token"

\* the exception classes that derive from jwt.exceptions.PyJWTError
PyJWTErrors == {"DecodeError", "InvalidAlgorithmError", "InvalidSignatureError",
                "ExpiredSignatureError", "InvalidIssuerError"}

\* _get_public_key: the key whose kid is the header's, or the exception raised
GetPublicKey(token, keyset) ==
  IF ~token.wellformed
    THEN [key |-> NoKid, exc |-> Raise("DecodeError", "Invalid header", 161)]
  ELSE IF token.kid = NoKid
    THEN [key |-> NoKid,
          exc |-> AuthenticationFailed("Invalid token missing 'kid' header", 166)]
  ELSE IF token.alg # "RS256"
    THEN [key |-> NoKid,
          exc |-> AuthenticationFailed("Unsupported 'alg' header HS256", 168)]
  ELSE IF token.kid \notin keyset.keys
    THEN [key |-> NoKid, exc |-> AuthenticationFailed("Forbidden", 177)]
  ELSE [key |-> token.kid, exc |-> NoResult]

JwtDecodeUnverified(token, k) ==
  IF ~token.wellformed
    THEN [claims |-> NoClaims, exc |-> Raise("DecodeError", "Not enough segments", 126)]
  ELSE [claims |-> token.claims, exc |-> NoResult]

\* jwt.decode(token, key, issuer=..., algorithms=["RS256"], options=JWT_VERIFY_OPTS):
\* the payload, or the PyJWTError raised
JwtDecode(token, k) ==
  IF ~token.wellformed
    THEN [claims |-> NoClaims, exc |-> Raise("DecodeError", "Not enough segments", 126)]
  ELSE IF token.alg # "RS256"
    THEN [claims |-> NoClaims,
          exc |-> Raise("InvalidAlgorithmError", "The specified alg value is not allowed", 126)]
  ELSE IF token.signedBy # k
    THEN [claims |-> NoClaims,
          exc |-> Raise("InvalidSignatureError", "Signature verification failed", 126)]
  ELSE IF token.std = "expired"
    THEN [claims |-> NoClaims,
          exc |-> Raise("ExpiredSignatureError", "Signature has expired", 126)]
  ELSE IF token.std = "bad_iss"
    THEN [claims |-> NoClaims, exc |-> Raise("InvalidIssuerError", "Invalid issuer", 126)]
  ELSE [claims |-> token.claims, exc |-> NoResult]

\* the except clause of validate_jwt: a PyJWTError becomes the generic
\* AuthenticationFailed("Invalid token"); any other exception propagates
ValidateJwtExcept(e) ==
  IF e.exc \in PyJWTErrors THEN AuthenticationFailed("Invalid token", 137) ELSE e

ValidIdTokenDataPresentOnly(td) == td.aud # ""

\* _validate_id_token_data: TRUE when it returns, FALSE when it raises
ValidIdTokenData(td) == td.aud # "" /\ td.aud = COGNITO_USER_LOGIN_CLIENT_ID

\* line 61: email_verified, email and username are all truthy
UserStateOk(td) == td.email_verified /\ td.email # "" /\ td.username # 0

ShouldImpersonateAnyone(db, u) ==
  /\ db[u].impersonated_user # NoUser
  /\ u # db[u].impersonated_user

\* lines 84-88: only admins impersonate, and never themselves
ShouldImpersonate(db, u) ==
  /\ db[u].is_admin
  /\ db[u].impersonated_user # NoUser
  /\ u # db[u].impersonated_user

UnknownTokenUse(tu) ==
  IF tu = "" THEN "Unknown token_use: None" ELSE "Unknown token_use: refresh"

(***************************************************************************)
(* State                                                                   *)
(***************************************************************************)
VARIABLES
  memo,        \* __COGNITO_USER_POOL_JWKS, the module global
  cache,       \* the shared cache entry "cognito_user_pool_jwks" (None: no entry)
  users,       \* the user datastore
  apikeys,     \* the API-key datastore
  prev,        \* history: the previous get_jwks call of this process
  pc,          \* per thread: the statement it is about to execute
  request,     \* per thread: the request being authenticated
  cached_val,  \* per thread: local of get_jwks
  payload,     \* per thread: local of get_jwks
  jwks,        \* per thread: local of validate_jwt, the value get_jwks returned
  key,         \* per thread: the key _get_public_key selected
  token_data,  \* per thread: the verified claims
  user,        \* per thread: the resolved principal
  result,      \* per thread: what authenticate returned or raised
  fetches,     \* per thread, history: upstream GETs issued by the current call
  notified,    \* per thread, history: user_logged_in signals sent by the current call
  atcall,      \* per thread, history: the global and the cache entry when get_jwks was entered
  tainted      \* per thread, history: the cache entry was evicted during the call

keystore == <<memo, cache>>
datastores == <<users, apikeys>>
locals == <<request, cached_val, payload, jwks, key, token_data, user, result>>
history == <<prev, fetches, notified, atcall, tainted>>
vars == <<memo, cache, users, apikeys, prev, pc, request, cached_val, payload,
          jwks, key, token_data, user, result, fetches, notified, atcall, tainted>>

NoPrev == [some |-> FALSE, fetches |-> 0, outcome |-> ""]
NotEntered == [entered |-> FALSE, memo |-> None, cache_miss |-> FALSE]

Init ==
  /\ memo = None
  /\ cache = None
  /\ users = UserTable
  /\ apikeys = ApiKeyTable
  /\ prev = NoPrev
  /\ pc = [t \in AllThreads |-> "idle"]
  /\ request = [t \in AllThreads |-> NoRequest]
  /\ cached_val = [t \in AllThreads |-> None]
  /\ payload = [t \in AllThreads |-> None]
  /\ jwks = [t \in AllThreads |-> None]
  /\ key = [t \in AllThreads |-> NoKid]
  /\ token_data = [t \in AllThreads |-> NoClaims]
  /\ user = [t \in AllThreads |-> NoUser]
  /\ result = [t \in AllThreads |-> NoResult]
  /\ fetches = [t \in AllThreads |-> 0]
  /\ notified = [t \in AllThreads |-> 0]
  /\ atcall = [t \in AllThreads |-> NotEntered]
  /\ tainted = [t \in AllThreads |-> FALSE]

\* an exception leaves authenticate
Fail(t, e) ==
  /\ result' = [result EXCEPT ![t] = e]
  /\ pc' = [pc EXCEPT ![t] = "done"]

Goto(t, l) == pc' = [pc EXCEPT ![t] = l]

(***************************************************************************)
(* authenticate, lines 50-52: extract the bearer token                     *)
(***************************************************************************)
CallWith(t, reqs) ==
  /\ pc[t] = "idle"
  /\ \E req \in reqs :
       /\ request' = [request EXCEPT ![t] = req]
       /\ CASE GetAuthToken(req.header) = "none" ->
                 /\ result' = [result EXCEPT ![t] = ReturnNone]
                 /\ Goto(t, "done")
            [] GetAuthToken(req.header) = "invalid" ->
                 Fail(t, AuthenticationFailed("Invalid auth header. Format should be 'bearer <token>'", 152))
            [] OTHER ->
                 /\ Goto(t, "gj_memo")
                 /\ UNCHANGED result
  /\ UNCHANGED <<keystore, datastores, history, cached_val, payload, jwks, key, token_data, user>>

\* a request the client chose freely
Call(t) == CallWith(t, Requests)

(***************************************************************************)
(* get_jwks, lines 103-119, called from validate_jwt (line 124)            *)
(***************************************************************************)
GetJwksTestMemoIsNone(t) ==
  /\ pc[t] = "gj_memo"
  /\ atcall' = [atcall EXCEPT ![t] =
                  [entered |-> TRUE, memo |-> memo, cache_miss |-> cache = None]]
  /\ IF memo # None THEN Goto(t, "gj_ret") ELSE Goto(t, "gj_cacheget")
  /\ UNCHANGED <<keystore, datastores, locals, prev, fetches, notified, tainted>>

\* line 105: if not __COGNITO_USER_POOL_JWKS
GetJwksTestMemo(t) ==
  /\ pc[t] = "gj_memo"
  /\ atcall' = [atcall EXCEPT ![t] =
                  [entered |-> TRUE, memo |-> memo, cache_miss |-> cache = None]]
  /\ IF Truthy(memo) THEN Goto(t, "gj_ret") ELSE Goto(t, "gj_cacheget")
  /\ UNCHANGED <<keystore, datastores, locals, prev, fetches, notified, tainted>>

GetJwksCacheGetTruthy(t) ==
  /\ pc[t] = "gj_cacheget"
  /\ cached_val' = [cached_val EXCEPT ![t] = cache]
  /\ IF Truthy(cache) THEN Goto(t, "gj_hit") ELSE Goto(t, "gj_fetch")
  /\ UNCHANGED <<keystore, datastores, history, request, payload, jwks, key, token_data,
                 user, result>>

\* lines 106-107: cached_val = cache.get(...)
GetJwksCacheGet(t) ==
  /\ pc[t] = "gj_cacheget"
  /\ cached_val' = [cached_val EXCEPT ![t] = cache]
  /\ IF cache # None THEN Goto(t, "gj_hit") ELSE Goto(t, "gj_fetch")
  /\ UNCHANGED <<keystore, datastores, history, request, payload, jwks, key, token_data,
                 user, result>>

\* line 108: the global takes the cached value
GetJwksCacheHit(t) ==
  /\ pc[t] = "gj_hit"
  /\ memo' = cached_val[t]
  /\ Goto(t, "gj_check")
  /\ UNCHANGED <<cache, datastores, locals, history>>

\* lines 110-114: the GET answers 2xx with whatever the issuer publishes at that moment
GetJwksFetch(t) ==
  /\ pc[t] = "gj_fetch"
  /\ fetches' = [fetches EXCEPT ![t] = @ + 1]
  /\ \E p \in Payloads : payload' = [payload EXCEPT ![t] = p]
  /\ Goto(t, "gj_cacheset")
  /\ UNCHANGED <<keystore, datastores, prev, notified, atcall, tainted, request, cached_val,
                 jwks, key, token_data, user, result>>

GetJwksFetchFailsRetries(t) ==
  /\ pc[t] = "gj_fetch"
  /\ fetches' = [fetches EXCEPT ![t] = @ + 1]
  /\ IF fetches[t] = 0
       THEN UNCHANGED <<pc, result>>
       ELSE Fail(t, Raise("RequestException", "upstream fetch failed", 113))
  /\ UNCHANGED <<keystore, datastores, prev, notified, atcall, tainted, request, cached_val,
                 payload, jwks, key, token_data, user>>

\* lines 110-113: the GET fails (network error, or raise_for_status on a non-2xx)
GetJwksFetchFails(t) ==
  /\ pc[t] = "gj_fetch"
  /\ fetches' = [fetches EXCEPT ![t] = @ + 1]
  /\ Fail(t, Raise("RequestException", "upstream fetch failed", 113))
  /\ UNCHANGED <<keystore, datastores, prev, notified, atcall, tainted, request, cached_val,
                 payload, jwks, key, token_data, user>>

GetJwksCacheSetSkipped(t) ==
  /\ pc[t] = "gj_cacheset"
  /\ Goto(t, "gj_memoset")
  /\ UNCHANGED <<keystore, datastores, locals, history>>

\* line 115: cache.set(...)
GetJwksCacheSet(t) ==
  /\ pc[t] = "gj_cacheset"
  /\ cache' = payload[t]
  /\ Goto(t, "gj_memoset")
  /\ UNCHANGED <<memo, datastores, locals, history>>

\* line 116: the global takes the payload
GetJwksMemoSet(t) ==
  /\ pc[t] = "gj_memoset"
  /\ memo' = payload[t]
  /\ Goto(t, "gj_check")
  /\ UNCHANGED <<cache, datastores, locals, history>>

\* lines 117-118: if not __COGNITO_USER_POOL_JWKS: raise
GetJwksCheck(t) ==
  /\ pc[t] = "gj_check"
  /\ IF ~Truthy(memo)
       THEN Fail(t, Raise("Exception", "We did not get any JWKs from Cognito.", 118))
       ELSE Goto(t, "gj_ret") /\ UNCHANGED result
  /\ UNCHANGED <<keystore, datastores, history, request, cached_val, payload, jwks, key,
                 token_data, user>>

\* line 119: return __COGNITO_USER_POOL_JWKS, into jwks of validate_jwt (line 124)
GetJwksReturn(t) ==
  /\ pc[t] = "gj_ret"
  /\ jwks' = [jwks EXCEPT ![t] = memo]
  /\ Goto(t, "gpk")
  /\ UNCHANGED <<keystore, datastores, history, request, cached_val, payload, key,
                 token_data, user, result>>

(***************************************************************************)
(* validate_jwt, lines 125-137                                             *)
(***************************************************************************)
GetPublicKeyStepRefreshing(t) ==
  /\ pc[t] = "gpk"
  /\ LET r == GetPublicKey(request[t].token, jwks[t]) IN
       IF r.exc # NoResult
         THEN /\ Fail(t, ValidateJwtExcept(r.exc))
              /\ memo' = IF r.exc.line = 177 THEN None ELSE memo
              /\ cache' = IF r.exc.line = 177 THEN None ELSE cache
              /\ UNCHANGED key
         ELSE /\ key' = [key EXCEPT ![t] = r.key]
              /\ Goto(t, "decode")
              /\ UNCHANGED <<result, keystore>>
  /\ UNCHANGED <<datastores, history, request, cached_val, payload, jwks, token_data, user>>

\* line 128: _get_public_key(token, jwks), under the try of validate_jwt
GetPublicKeyStep(t) ==
  /\ pc[t] = "gpk"
  /\ LET r == GetPublicKey(request[t].token, jwks[t]) IN
       IF r.exc # NoResult
         THEN Fail(t, ValidateJwtExcept(r.exc)) /\ UNCHANGED key
         ELSE /\ key' = [key EXCEPT ![t] = r.key]
              /\ Goto(t, "decode")
              /\ UNCHANGED result
  /\ UNCHANGED <<keystore, datastores, history, request, cached_val, payload, jwks,
                 token_data, user>>

\* lines 126-137: jwt.decode and the except clause
Decode(t) ==
  /\ pc[t] = "decode"
  /\ LET r == JwtDecode(request[t].token, key[t]) IN
       IF r.exc # NoResult
         THEN Fail(t, ValidateJwtExcept(r.exc)) /\ UNCHANGED token_data
         ELSE /\ token_data' = [token_data EXCEPT ![t] = r.claims]
              /\ Goto(t, "classify")
              /\ UNCHANGED result
  /\ UNCHANGED <<keystore, datastores, history, request, cached_val, payload, jwks, key, user>>

(***************************************************************************)
(* authenticate, lines 55-93                                               *)
(***************************************************************************)
ClassifyNamingMissingClientId(t) ==
  /\ pc[t] = "classify"
  /\ LET td == token_data[t] IN
       CASE td.token_use = "id" ->
              IF ~ValidIdTokenData(td) THEN Fail(t, AuthenticationFailed("Invalid id token", 186))
              ELSE IF ~UserStateOk(td) THEN Fail(t, AuthenticationFailed("Invalid user state", 62))
              ELSE Goto(t, "resolve") /\ UNCHANGED result
         [] td.token_use = "access" ->
              IF td.client_id = 0 THEN Fail(t, AuthenticationFailed("Missing client_id", 71))
              ELSE Goto(t, "resolve") /\ UNCHANGED result
         [] OTHER -> Fail(t, AuthenticationFailed(UnknownTokenUse(td.token_use), 78))
  /\ UNCHANGED <<keystore, datastores, history, request, cached_val, payload, jwks, key,
                 token_data, user>>

\* lines 55-62, 67-71, 77-78: branch on token_use and check the claims of the branch
Classify(t) ==
  /\ pc[t] = "classify"
  /\ LET td == token_data[t] IN
       CASE td.token_use = "id" ->
              IF ~ValidIdTokenData(td) THEN Fail(t, AuthenticationFailed("Invalid id token", 186))
              ELSE IF ~UserStateOk(td) THEN Fail(t, AuthenticationFailed("Invalid user state", 62))
              ELSE Goto(t, "resolve") /\ UNCHANGED result
         [] td.token_use = "access" ->
              IF td.client_id = 0 THEN Fail(t, AuthenticationFailed("Invalid access token", 71))
              ELSE Goto(t, "resolve") /\ UNCHANGED result
         [] OTHER -> Fail(t, AuthenticationFailed(UnknownTokenUse(td.token_use), 78))
  /\ UNCHANGED <<keystore, datastores, history, request, cached_val, payload, jwks, key,
                 token_data, user>>

ResolveProvisioning(t) ==
  /\ pc[t] = "resolve"
  /\ LET td == token_data[t] IN
       IF td.token_use = "id"
         THEN /\ users' = IF td.username \in DOMAIN users THEN users
                          ELSE (td.username :> [is_active |-> TRUE, is_admin |-> FALSE,
                                                impersonated_user |-> 0]) @@ users
              /\ user' = [user EXCEPT ![t] = td.username]
              /\ Goto(t, "gate")
              /\ UNCHANGED result
         ELSE /\ UNCHANGED users
              /\ IF td.client_id \in DOMAIN apikeys
                   THEN /\ user' = [user EXCEPT ![t] = apikeys[td.client_id]]
                        /\ Goto(t, "gate")
                        /\ UNCHANGED result
                   ELSE Fail(t, AuthenticationFailed("Invalid access token", 76)) /\ UNCHANGED user
  /\ UNCHANGED <<keystore, apikeys, history, request, cached_val, payload, jwks, key,
                 token_data>>

\* lines 63-66 and 72-76: the datastore lookup of the branch
Resolve(t) ==
  /\ pc[t] = "resolve"
  /\ LET td == token_data[t] IN
       IF td.token_use = "id"
         THEN IF td.username \in DOMAIN users
                THEN /\ user' = [user EXCEPT ![t] = td.username]
                     /\ Goto(t, "gate")
                     /\ UNCHANGED result
                ELSE Fail(t, AuthenticationFailed("User does not exist", 66)) /\ UNCHANGED user
         ELSE IF td.client_id \in DOMAIN apikeys
                THEN /\ user' = [user EXCEPT ![t] = apikeys[td.client_id]]
                     /\ Goto(t, "gate")
                     /\ UNCHANGED result
                ELSE Fail(t, AuthenticationFailed("Invalid access token", 76)) /\ UNCHANGED user
  /\ UNCHANGED <<keystore, datastores, history, request, cached_val, payload, jwks, key,
                 token_data>>

GateImpersonationFirst(t) ==
  /\ pc[t] = "gate"
  /\ IF ShouldImpersonate(users, user[t])
       THEN /\ result' = [result EXCEPT ![t] =
                            Return(users[user[t]].impersonated_user, token_data[t], 90)]
            /\ Goto(t, "done")
       ELSE IF ~users[user[t]].is_active
         THEN Fail(t, AuthenticationFailed("User deactivated", 81))
         ELSE Goto(t, "send") /\ UNCHANGED result
  /\ UNCHANGED <<keystore, datastores, history, request, cached_val, payload, jwks, key,
                 token_data, user>>

\* lines 80-90: the activity check, then the impersonation rule
Gate(t) ==
  /\ pc[t] = "gate"
  /\ IF ~users[user[t]].is_active
       THEN Fail(t, AuthenticationFailed("User deactivated", 81))
       ELSE IF ShouldImpersonate(users, user[t])
         THEN /\ result' = [result EXCEPT ![t] =
                              Return(users[user[t]].impersonated_user, token_data[t], 90)]
              /\ Goto(t, "done")
         ELSE Goto(t, "send") /\ UNCHANGED result
  /\ UNCHANGED <<keystore, datastores, history, request, cached_val, payload, jwks, key,
                 token_data, user>>

SendLoggedInDropped(t) ==
  /\ pc[t] = "send"
  /\ Goto(t, "ret")
  /\ UNCHANGED <<keystore, datastores, locals, history>>

\* line 92: user_logged_in.send(...)
SendLoggedIn(t) ==
  /\ pc[t] = "send"
  /\ notified' = [notified EXCEPT ![t] = @ + 1]
  /\ Goto(t, "ret")
  /\ UNCHANGED <<keystore, datastores, locals, prev, fetches, atcall, tainted>>

\* line 93: return user, token_data
ReturnUser(t) ==
  /\ pc[t] = "ret"
  /\ result' = [result EXCEPT ![t] = Return(user[t], token_data[t], 93)]
  /\ Goto(t, "done")
  /\ UNCHANGED <<keystore, datastores, history, request, cached_val, payload, jwks, key,
                 token_data, user>>

\* get_jwks was called by the current call and has returned or raised
GetJwksReturned(t) == jwks[t] # None
GetJwksRaised(t) == result[t].line \in {113, 118}
GetJwksEnded(t) == GetJwksReturned(t) \/ GetJwksRaised(t)

\* the call is over: the frame is dropped and the thread takes the next request
Finish(t) ==
  /\ pc[t] = "done"
  /\ prev' = IF ~atcall[t].entered THEN prev
             ELSE IF tainted[t] THEN NoPrev
             ELSE [some |-> TRUE, fetches |-> fetches[t],
                   outcome |-> IF GetJwksReturned(t) THEN "returned"
                               ELSE IF result[t].line = 113 THEN "fetch_error"
                               ELSE "empty"]
  /\ Goto(t, "idle")
  /\ request' = [request EXCEPT ![t] = NoRequest]
  /\ cached_val' = [cached_val EXCEPT ![t] = None]
  /\ payload' = [payload EXCEPT ![t] = None]
  /\ jwks' = [jwks EXCEPT ![t] = None]
  /\ key' = [key EXCEPT ![t] = NoKid]
  /\ token_data' = [token_data EXCEPT ![t] = NoClaims]
  /\ user' = [user EXCEPT ![t] = NoUser]
  /\ result' = [result EXCEPT ![t] = NoResult]
  /\ fetches' = [fetches EXCEPT ![t] = 0]
  /\ notified' = [notified EXCEPT ![t] = 0]
  /\ atcall' = [atcall EXCEPT ![t] = NotEntered]
  /\ tainted' = [tainted EXCEPT ![t] = FALSE]
  /\ UNCHANGED <<keystore, datastores>>

(***************************************************************************)
(* The environment: the shared cache's own policy and the other processes  *)
(* that share the cache                                                    *)
(***************************************************************************)
\* the cache evicts the entry (TTL or invalidation)
Evict ==
  /\ cache # None
  /\ cache' = None
  /\ prev' = NoPrev
  /\ tainted' = [t \in AllThreads |-> pc[t] # "idle"]
  /\ UNCHANGED <<memo, datastores, pc, locals, fetches, notified, atcall>>

\* another process misses the cache, fetches and stores the payload (lines 106-115 there)
OtherProcessSet ==
  /\ cache = None
  /\ \E p \in Payloads : cache' = p
  /\ UNCHANGED <<memo, datastores, pc, locals, history>>

Step(t) ==
  \/ Call(t)
  \/ GetJwksTestMemo(t)
  \/ GetJwksCacheGet(t)
  \/ GetJwksCacheHit(t)
  \/ GetJwksFetch(t)
  \/ GetJwksFetchFails(t)
  \/ GetJwksCacheSet(t)
  \/ GetJwksMemoSet(t)
  \/ GetJwksCheck(t)
  \/ GetJwksReturn(t)
  \/ GetPublicKeyStep(t)
  \/ Decode(t)
  \/ Classify(t)
  \/ Resolve(t)
  \/ Gate(t)
  \/ SendLoggedIn(t)
  \/ ReturnUser(t)
  \/ Finish(t)

Next ==
  \/ \E t \in Threads : Step(t)
  \/ Evict
  \/ OtherProcessSet

Spec == Init /\ [][Next]_vars

(***************************************************************************)
(* Concurrent first requests: every thread of the process serves one       *)
(* request that carries a bearer token, so that validate_jwt calls         *)
(* get_jwks (line 124); the threads interleave at each read and write of   *)
(* the global and of the cache, from an empty global and an empty cache.   *)
(***************************************************************************)
BearerRequests ==
  {[header |-> [nseg |-> 2, scheme |-> "bearer"],
    token |-> Token(TRUE, 1, "RS256", 1, "ok", DefaultClaims)]}

GetJwksStep(t) ==
  \/ CallWith(t, BearerRequests)
  \/ GetJwksTestMemo(t)
  \/ GetJwksCacheGet(t)
  \/ GetJwksCacheHit(t)
  \/ GetJwksFetch(t)
  \/ GetJwksFetchFails(t)
  \/ GetJwksCacheSet(t)
  \/ GetJwksMemoSet(t)
  \/ GetJwksCheck(t)
  \/ GetJwksReturn(t)

NextConc == \E t \in AllThreads : GetJwksStep(t)

SpecConc == Init /\ [][NextConc]_vars

(***************************************************************************)
(* Properties                                                              *)
(***************************************************************************)
Done(t) == pc[t] = "done"
Succeeded(t) == Done(t) /\ result[t].kind = "ok"
Errored(t) == Done(t) /\ result[t].kind = "error"

\* the presented token passes every check of the verifier against the key set
\* the call obtained
TokenVerifies(t) ==
  LET tk == request[t].token IN
    /\ jwks[t] # None
    /\ tk.wellformed
    /\ tk.alg = "RS256"
    /\ tk.kid # NoKid
    /\ tk.kid \in jwks[t].keys
    /\ tk.signedBy = tk.kid
    /\ tk.std = "ok"

\* the claims of the presented token name an existing, active principal
ClaimsResolve(t) ==
  LET c == request[t].token.claims IN
    \/ /\ c.token_use = "id"
       /\ c.aud = "login-client"
       /\ c.email_verified /\ c.email # "" /\ c.username # 0
       /\ c.username \in DOMAIN UserTable
       /\ UserTable[c.username].is_active
    \/ /\ c.token_use = "access"
       /\ c.client_id \in DOMAIN ApiKeyTable
       /\ UserTable[ApiKeyTable[c.client_id]].is_active

HasBearer(t) == request[t].header = [nseg |-> 2, scheme |-> "bearer"]

\* C1: authenticate returns a (principal, claims) pair only when validate_jwt
\* accepted the presented token in that call (RS256, kid present and in the key
\* set get_jwks returned, signature, expiry and issuer accepted), the claims
\* returned being the token's; and a call in which any stage fails ends in an
\* error that carries no principal.
NoPrincipalWithoutVerification ==
  \A t \in Threads :
    Done(t) =>
      /\ result[t].kind = "ok" =>
           /\ TokenVerifies(t)
           /\ token_data[t] = request[t].token.claims
           /\ result[t].claims = request[t].token.claims
           /\ result[t].user # NoUser
      /\ (HasBearer(t) /\ ~(TokenVerifies(t) /\ ClaimsResolve(t))) =>
           /\ result[t].kind = "error"
           /\ result[t].user = NoUser
      /\ result[t].kind = "error" => result[t].user = NoUser

\* a call has returned a principal for a token that verifies
VerifiedPrincipalReturned ==
  \E t \in Threads : Succeeded(t) /\ TokenVerifies(t) /\ result[t].user # NoUser

\* C2: every user authenticate returns has is_active = true, on both token
\* paths, with or without impersonation substitution.
ReturnedUserIsActive ==
  \A t \in Threads : Succeeded(t) => users[result[t].user].is_active

\* C3: the returned user is the resolved principal's impersonated_user exactly
\* when the resolved principal is an admin whose impersonated_user is non-null
\* and has another id; otherwise it is the resolved principal itself.  The
\* substitution is one hop: the impersonated user's own impersonated_user is
\* not followed.
ImpersonationCase(u) ==
  /\ UserTable[u].is_admin
  /\ UserTable[u].impersonated_user # 0
  /\ UserTable[u].impersonated_user # u

ImpersonationExactlyWhenAdmin ==
  \A t \in Threads :
    Succeeded(t) =>
      /\ user[t] \in DOMAIN UserTable
      /\ (result[t].line = 90) <=> ImpersonationCase(user[t])
      /\ result[t].user = IF ImpersonationCase(user[t])
                            THEN UserTable[user[t]].impersonated_user
                            ELSE user[t]

\* an admin was replaced by its impersonated user, who is itself an admin
\* impersonating a third user
ImpersonatedReturned ==
  \E t \in Threads :
    /\ Succeeded(t)
    /\ result[t].user # user[t]
    /\ ImpersonationCase(result[t].user)

\* C4: the login notification has fired exactly once when an identity-token
\* call is about to return and has returned the resolved principal itself; it
\* has fired zero times in a call that ended in an error and in a call that
\* returned an impersonated user.
NotifiedOncePerIdentityLogin ==
  \A t \in Threads :
    /\ (pc[t] = "ret" /\ token_data[t].token_use = "id") => notified[t] = 1
    /\ (Succeeded(t) /\ token_data[t].token_use = "id" /\ result[t].user = user[t])
         => notified[t] = 1
    /\ Errored(t) => notified[t] = 0
    /\ (Succeeded(t) /\ result[t].user # user[t]) => notified[t] = 0

\* an identity-token call returned its resolved principal
IdentityLoginReturned ==
  \E t \in Threads :
    /\ Succeeded(t)
    /\ token_data[t].token_use = "id"
    /\ result[t].user = user[t]
    /\ notified[t] = 1

\* C5: a call whose verified claims have token_use = "access" emits no login
\* notification.
AccessTokenNeverNotifies ==
  \A t \in Threads : token_data[t].token_use = "access" => notified[t] = 0

\* the call failed inside validate_jwt, after get_jwks had returned
VerifierFailed(t) == Errored(t) /\ jwks[t] # None /\ token_data[t] = NoClaims

\* C6: every failure of the token verifier reaches the caller as the one
\* generic error, whatever check failed.
VerifierFailureIsGeneric ==
  \A t \in Threads :
    VerifierFailed(t) =>
      /\ result[t].exc = "AuthenticationFailed"
      /\ result[t].detail = "Invalid token"

\* the kid of the presented token is not in the key set the call obtained
KidAbsent(t) ==
  /\ jwks[t] # None
  /\ request[t].token.wellformed
  /\ request[t].token.kid \notin jwks[t].keys

\* C7: a token whose kid is absent from the key set obtained for the call fails
\* with an authentication error, and from the key-set lookup to the failure the
\* call issues no upstream fetch and changes neither the in-process memo nor
\* the shared cache entry.
KidAbsentFailsWithoutRefresh ==
  /\ [](\A t \in Threads :
          (Done(t) /\ KidAbsent(t)) =>
             result[t].kind = "error" /\ result[t].exc = "AuthenticationFailed")
  /\ [][\A t \in Threads :
          (KidAbsent(t) /\ pc[t] # pc'[t] /\ pc'[t] # "idle") =>
             /\ memo' = memo
             /\ cache' = cache
             /\ fetches'[t] = fetches[t]]_vars

\* a token with a kid that the obtained key set lacks was rejected
KidAbsentRejected ==
  \E t \in Threads :
    /\ Errored(t)
    /\ KidAbsent(t)
    /\ request[t].token.kid # NoKid
    /\ request[t].token.alg = "RS256"
    /\ jwks[t].keys # {}

\* C8: an upstream answer without keys ({} or {"keys": []}) makes get_jwks
\* fail, and get_jwks never returns a key set that holds zero keys.
EmptyKeySetIsFailure ==
  \A t \in Threads :
    /\ GetJwksReturned(t) => jwks[t].keys # {}
    /\ (GetJwksEnded(t) /\ payload[t] # None /\ payload[t].keys = {}) => GetJwksRaised(t)

FetchFailed(t) == Done(t) /\ result[t].line = 113

NoRetryOnFetchFailure ==
  \A t \in Threads :
    /\ fetches[t] <= 1
    /\ FetchFailed(t) =>
         /\ result[t].kind = "error"
         /\ result[t].user = NoUser
         /\ fetches[t] = 1
         /\ memo = atcall[t].memo
    /\ (prev.some /\ prev.outcome = "fetch_error" /\ GetJwksEnded(t))
         => fetches[t] = 1

\* C11 as amended: the same, the next call fetching again when its lookup of
\* the shared cache misses (no other process has stored a payload meanwhile);
\* and no step of the call up to the failed GET writes the memo or the cache.
NoRetryOnFetchFailureNextFetchesOnMiss ==
  /\ [](\A t \in Threads :
          /\ fetches[t] <= 1
          /\ FetchFailed(t) =>
               /\ result[t].kind = "error"
               /\ result[t].user = NoUser
               /\ fetches[t] = 1
               /\ memo = atcall[t].memo
          /\ (prev.some /\ prev.outcome = "fetch_error" /\ GetJwksEnded(t)
                /\ cached_val[t] = None)
               => fetches[t] = 1)
  /\ [][\A t \in Threads :
          (pc[t] \in {"gj_memo", "gj_cacheget", "gj_fetch"}
             /\ pc'[t] # pc[t]
             /\ pc'[t] \in {"gj_cacheget", "gj_fetch", "done"})
            => (memo' = memo /\ cache' = cache)]_vars

\* the call after a failed fetch has fetched again and obtained a key set
FetchedAgainAfterFailure ==
  \E t \in Threads :
    /\ prev.some
    /\ prev.outcome = "fetch_error"
    /\ GetJwksReturned(t)
    /\ fetches[t] = 1


\* C12: a resolved principal with is_active = false yields the user-deactivated
\* failure on the identity and on the access path, also when it is an admin with
\* another user set as impersonated_user, and no notification is fired.
DeactivatedPrincipalFails ==
  \A t \in Threads :
    (Done(t) /\ user[t] # NoUser /\ ~UserTable[user[t]].is_active) =>
       /\ result[t].kind = "error"
       /\ result[t].exc = "AuthenticationFailed"
       /\ result[t].detail = "User deactivated"
       /\ result[t].user = NoUser
       /\ notified[t] = 0

\* a deactivated admin that impersonates another user was refused
DeactivatedImpersonatorRefused ==
  \E t \in Threads :
    /\ Errored(t)
    /\ user[t] # NoUser
    /\ ~UserTable[user[t]].is_active
    /\ ImpersonationCase(user[t])


\* C13: a verified identity token whose aud is absent or is not the login
\* client's identifier fails with no principal and no notification, and the
\* call never reaches a datastore lookup; an access token is accepted whatever
\* its aud.
IdTokenWithBadAud(t) ==
  /\ token_data[t].token_use = "id"
  /\ token_data[t].aud # "login-client"

AccessTokenFor(t) ==
  /\ token_data[t].token_use = "access"
  /\ token_data[t].client_id \in DOMAIN ApiKeyTable
  /\ UserTable[ApiKeyTable[token_data[t].client_id]].is_active

BadAudienceFailsBeforeLookup ==
  \A t \in Threads :
    /\ IdTokenWithBadAud(t) =>
         /\ pc[t] \notin {"resolve", "gate", "send", "ret"}
         /\ user[t] = NoUser
         /\ notified[t] = 0
         /\ Done(t) => (/\ result[t].kind = "error"
                        /\ result[t].exc = "AuthenticationFailed"
                        /\ result[t].user = NoUser)
    /\ (Done(t) /\ AccessTokenFor(t)) => result[t].kind = "ok"

\* an identity token issued for another client was refused, its username
\* never looked up
OtherAudienceRefused ==
  \E t \in Threads :
    /\ Errored(t)
    /\ token_data[t].token_use = "id"
    /\ token_data[t].aud = "other-client"
    /\ token_data[t].username \in DOMAIN UserTable
    /\ user[t] = NoUser


\* C14: an identity token that passes every claim check but names a username
\* with no user row fails with "User does not exist" and no principal; no
\* call ever adds, removes or changes a row of the user or API-key datastore.
UnknownUsername(t) ==
  /\ token_data[t].token_use = "id"
  /\ ValidIdTokenData(token_data[t])
  /\ UserStateOk(token_data[t])
  /\ token_data[t].username \notin DOMAIN UserTable

AccessTokenWithoutKey(t) ==
  /\ token_data[t].token_use = "access"
  /\ token_data[t].client_id \notin DOMAIN ApiKeyTable

AccessTokenResolution ==
  \A t \in Threads :
    LET td == token_data[t]
        owner == ApiKeyTable[td.client_id]
    IN /\ AccessTokenWithoutKey(t) =>
            /\ user[t] = NoUser
            /\ pc[t] \notin {"gate", "send", "ret"}
            /\ Done(t) => /\ result[t].kind = "error"
                          /\ result[t].exc = "AuthenticationFailed"
                          /\ result[t].detail = "Invalid access token"
                          /\ result[t].user = NoUser
       /\ (td.token_use = "access" /\ td.client_id \in DOMAIN ApiKeyTable) =>
            /\ user[t] \in {NoUser, owner}
            /\ pc[t] \in {"gate", "send", "ret", "done"} => user[t] = owner
            /\ Done(t) =>
                 IF UserTable[owner].is_active
                   THEN /\ result[t].kind = "ok"
                        /\ result[t].user \in {owner, UserTable[owner].impersonated_user}
                   ELSE result[t] = AuthenticationFailed("User deactivated", 81)
       /\ td.token_use \notin {"id", "access", "<unset>"} =>
            /\ user[t] = NoUser
            /\ pc[t] \in {"classify", "done"}
            /\ Done(t) => (result[t].kind = "error" /\ result[t].line = 78)

\* an access token naming a client_id without a row was refused at the lookup
UnknownClientIdRefused ==
  \E t \in Threads :
    /\ Done(t)
    /\ token_data[t].token_use = "access"
    /\ token_data[t].client_id = Unknown
    /\ result[t] = AuthenticationFailed("Invalid access token", 76)


\* C16: a call whose request has no Authorization header ends by returning
\* None, having never entered get_jwks (no read of the global or of the cache,
\* no GET), never verified a token, never looked a user or key up and never
\* sent the signal; a call whose non-empty header has another scheme or other
\* than two segments ends in AuthenticationFailed at line 152, equally before
\* get_jwks and jwt.decode.
Untouched(t) ==
  /\ ~atcall[t].entered
  /\ fetches[t] = 0
  /\ cached_val[t] = None
  /\ payload[t] = None
  /\ jwks[t] = None
  /\ key[t] = NoKid
  /\ token_data[t] = NoClaims
  /\ user[t] = NoUser
  /\ notified[t] = 0

NoHeader(t) == pc[t] # "idle" /\ request[t].header.nseg = 0

BadHeader(t) ==
  /\ pc[t] # "idle"
  /\ request[t].header.nseg # 0
  /\ (request[t].header.nseg # 2 \/ request[t].header.scheme # "bearer")

NoHeaderIsPassThrough ==
  \A t \in Threads :
    /\ NoHeader(t) => (Done(t) /\ result[t] = ReturnNone /\ Untouched(t))
    /\ BadHeader(t) =>
         /\ Done(t)
         /\ result[t].kind = "error"
         /\ result[t].exc = "AuthenticationFailed"
         /\ result[t].line = 152
         /\ Untouched(t)

\* a request without the header was passed through after the key store had
\* been filled by an earlier call
PassedThrough ==
  \E t \in Threads : NoHeader(t) /\ result[t] = ReturnNone /\ memo # None


\* C17: in every state of every interleaving of the concurrent get_jwks
\* calls, each call has issued at most one GET, every call that has returned
\* got a key set with at least one key that is the whole payload of one of the
\* GETs, and once every call is over and one has returned, the global and the
\* cache entry each hold such a payload.
Responses == {payload[t] : t \in AllThreads} \ {None}

WholeResponse(v) == v \in Responses /\ v.kind = "jwks" /\ v.keys # {}

HasReturned(t) == pc[t] = "gpk"

ConcurrentFirstCallsSafe ==
  /\ \A t \in AllThreads :
       /\ fetches[t] <= 1
       /\ HasReturned(t) => WholeResponse(jwks[t])
  /\ ((\A t \in AllThreads : pc[t] \in {"gpk", "done"})
        /\ (\E t \in AllThreads : HasReturned(t)))
       => (WholeResponse(memo) /\ WholeResponse(cache))


\* the cache entry has been {} from the moment get_jwks was entered until now
CacheHeldEmptyPayload(t) ==
  /\ GetJwksEnded(t)
  /\ ~atcall[t].cache_miss
  /\ ~tainted[t]
  /\ cache = EmptyPayload

\* the call fetched {}: it raised at line 118, the global is {} and, unless
\* the entry was evicted meanwhile, so is the cache entry
EmptyFetchIsStored(t) ==
  (Done(t) /\ payload[t] = EmptyPayload) =>
     /\ result[t] = Raise("Exception", "We did not get any JWKs from Cognito.", 118)
     /\ memo = EmptyPayload
     /\ ~tainted[t] => cache = EmptyPayload

====
